---- MODULE Spec2Model ----
(***************************************************************************)
(* Identity metrics of trackeval/metrics/identity.py: the detection-level  *)
(* metric (class Identity) and the track-level metric (class               *)
(* TrackIdentity), with their sequence aggregation.                        *)
(*                                                                         *)
(* Number representation.                                                  *)
(*  - Similarity scores, THRESHOLD and TRACK_IOU_THRESH are numbers of     *)
(*    [0,1]; the model holds them in tenths (0.5 is 5, 0.2 is 2).          *)
(*  - A float of a result (IDF1, IDR, IDP) is an exact fraction            *)
(*    [num, den]; den = 0 stands for the NaN of a division 0/0.            *)
(*  - A cell of the detection-level matrices is [e10, n] and stands for    *)
(*    e10 * 10^10 + n: the code writes the literal 1e10 in forbidden       *)
(*    cells, which lies beyond the integers TLC evaluates.  Every n of a   *)
(*    sum stays far below 10^10 (it is at most the number of detections),  *)
(*    so comparing (e10, n) lexicographically is comparing the numbers.    *)
(*  - A cell of the track-level cost matrix is an exact fraction           *)
(*    [num, den]; sums of cells are compared on the common denominator     *)
(*    CostScale.                                                           *)
(***************************************************************************)
EXTENDS Integers, Sequences, FiniteSets, TLC

VARIABLES
    op,                       \* the method that ran last
    data,                     \* the sequence handed to eval_sequence
    threshold,                \* self.threshold (tenths)
    track_iou_threshold,      \* self.track_iou_threshold (tenths)
    branch,                   \* return taken by the last eval_sequence
    potential_matches_count,  \* tables of the last eval_sequence
    gt_id_count,
    tracker_id_count,
    cost_matrix,              \* matrix handed to linear_sum_assignment
    match_cols,               \* its answer: row r is paired with match_cols[r]
    res,                      \* the result eval_sequence returned
    res_e10,                  \* multiples of 10^10 in res (detection level)
    runs,                     \* results Identity.eval_sequence gave for data
    all_res,                  \* per-sequence results handed to combine_sequences
    average,                  \* the mode of the last combine_sequences
    combined,                 \* <<r>> when the last combine_sequences returned r
    raised                    \* the exception it ended in, or "none"

vars == <<op, data, threshold, track_iou_threshold, branch,
          potential_matches_count, gt_id_count, tracker_id_count,
          cost_matrix, match_cols, res, res_e10, runs,
          all_res, average, combined, raised>>

evalVars == <<op, branch, potential_matches_count, gt_id_count, tracker_id_count,
              cost_matrix, match_cols, res, res_e10>>
combineVars == <<all_res, average, combined, raised>>

(***************************************************************************)
(* Bounds of the model                                                     *)
(***************************************************************************)
MaxFrames == 2
MaxDets == 3
MaxGtIds == 2
MaxTrackerIds == 2
MaxSeqs == 2
MaxCount == 1

\* similarity scores that occur in the frames, and the configurations tried
\* get_default_config: THRESHOLD 0.5 and TRACK_IOU_THRESH 0.2, in tenths
DefaultThreshold == 5
DefaultTrackIouThresh == 2

SimVals == {3, 5}
Thresholds == {3, DefaultThreshold}
TrackIouThresholds == {DefaultTrackIouThresh, 5}
Averages == {"micro", "macro", "weighted"}

(***************************************************************************)
(* Arithmetic helpers                                                      *)
(***************************************************************************)
Max(a, b) == IF a >= b THEN a ELSE b

RECURSIVE Gcd(_, _)
Gcd(a, b) == IF b = 0 THEN a ELSE Gcd(b, a % b)

RECURSIVE LcmUpTo(_)
LcmUpTo(n) == IF n <= 1 THEN 1
              ELSE LET l == LcmUpTo(n - 1) IN (l * n) \div Gcd(l, n)

RECURSIVE SumOver(_, _)
\* sum of f[x] over the finite set S
SumOver(f, S) ==
    IF S = {} THEN 0
    ELSE LET x == CHOOSE y \in S : TRUE IN f[x] + SumOver(f, S \ {x})

RECURSIVE Ascending(_)
Ascending(S) ==
    IF S = {} THEN <<>>
    ELSE LET x == CHOOSE y \in S : \A z \in S : y <= z
         IN <<x>> \o Ascending(S \ {x})

Rat(n, d) == [num |-> n, den |-> d]

(***************************************************************************)
(* Input: the per-sequence data structure                                  *)
(***************************************************************************)
\* the frames with identities of 0..G-1 and 0..T-1 and at most budget
\* detections, gt and tracker detections counted together
FrameSet(G, T, budget) ==
    UNION { UNION { { [gt_ids_t |-> Ascending(gs),
                       tracker_ids_t |-> Ascending(ts),
                       similarity_scores_t |-> s] :
                      s \in [1..Cardinality(gs) -> [1..Cardinality(ts) -> SimVals]] } :
                    ts \in { x \in SUBSET (0..(T - 1)) :
                               Cardinality(gs) + Cardinality(x) <= budget } } :
            gs \in SUBSET (0..(G - 1)) }

RECURSIVE FrameSeqs(_, _, _, _)
\* the sequences of n such frames with at most budget detections in all
FrameSeqs(G, T, n, budget) ==
    IF n = 0 THEN { <<>> }
    ELSE UNION { { <<f>> \o rest :
                     rest \in FrameSeqs(G, T, n - 1,
                                        budget - Len(f.gt_ids_t) - Len(f.tracker_ids_t)) } :
                 f \in FrameSet(G, T, budget) }

Range(s) == { s[i] : i \in DOMAIN s }

RECURSIVE SumLen(_, _)
SumLen(frames, field) ==
    IF frames = <<>> THEN 0
    ELSE Len(Head(frames)[field]) + SumLen(Tail(frames), field)

MakeData(G, T, frames) ==
    [num_gt_ids |-> G,
     num_tracker_ids |-> T,
     num_gt_dets |-> SumLen(frames, "gt_ids_t"),
     num_tracker_dets |-> SumLen(frames, "tracker_ids_t"),
     gt_ids |-> [t \in DOMAIN frames |-> frames[t].gt_ids_t],
     tracker_ids |-> [t \in DOMAIN frames |-> frames[t].tracker_ids_t],
     similarity_scores |-> [t \in DOMAIN frames |-> frames[t].similarity_scores_t]]

\* every identity of the declared ranges appears in some frame
Covers(G, T, frames) ==
    /\ \A g \in 0..(G - 1) : \E t \in DOMAIN frames : g \in Range(frames[t].gt_ids_t)
    /\ \A k \in 0..(T - 1) : \E t \in DOMAIN frames : k \in Range(frames[t].tracker_ids_t)

SequenceData ==
    UNION { UNION { UNION { { MakeData(G, T, frames) :
                              frames \in { f \in FrameSeqs(G, T, n, MaxDets) : Covers(G, T, f) } } :
                            n \in 0..MaxFrames } :
                    T \in 0..MaxTrackerIds } :
            G \in 0..MaxGtIds }

(***************************************************************************)
(* Results                                                                 *)
(***************************************************************************)
integer_fields == {"IDTP", "IDFN", "IDFP"}
float_fields == {"IDF1", "IDR", "IDP"}
fields == float_fields \cup integer_fields

\* res = {}; for field in self.fields: res[field] = 0
ZeroRes == [IDTP |-> 0, IDFN |-> 0, IDFP |-> 0,
            IDF1 |-> Rat(0, 1), IDR |-> Rat(0, 1), IDP |-> Rat(0, 1)]

NoE10 == [IDTP |-> 0, IDFN |-> 0, IDFP |-> 0]

compute_final_fields(r) ==
    [r EXCEPT
       !.IDR = IF r.IDFN # 0 THEN Rat(r.IDTP, Max(1, r.IDTP + r.IDFN))
               ELSE Rat(1, 1),
       !.IDP = IF r.IDFP # 0 THEN Rat(r.IDTP, Max(1, r.IDTP + r.IDFP))
               ELSE Rat(1, 1),
       \* IDTP / max(1.0, IDTP + 0.5 * IDFP + 0.5 * IDFN), numerator and
       \* denominator doubled
       !.IDF1 = IF r.IDFN # 0 \/ r.IDFP # 0
                THEN Rat(2 * r.IDTP, Max(2, 2 * r.IDTP + r.IDFP + r.IDFN))
                ELSE Rat(1, 1)]

(***************************************************************************)
(* Accumulation of the global track information                            *)
(***************************************************************************)
\* the comparison turned around
greater_equal_inverted(score, th) == score <= th


greater_equal(score, th) == score >= th

\* the (gt id, tracker id) pairs the fancy-indexed "+= 1" of timestep t touches
MatchedPairs(d, t, th) ==
    { <<d.gt_ids[t][i], d.tracker_ids[t][j]>> :
        <<i, j>> \in { p \in (DOMAIN d.gt_ids[t]) \X (DOMAIN d.tracker_ids[t]) :
                         greater_equal(d.similarity_scores[t][p[1]][p[2]], th) } }

ZeroTables(d) ==
    [pmc |-> [g \in 0..(d.num_gt_ids - 1) |-> [k \in 0..(d.num_tracker_ids - 1) |-> 0]],
     gc |-> [g \in 0..(d.num_gt_ids - 1) |-> 0],
     tc |-> [k \in 0..(d.num_tracker_ids - 1) |-> 0]]

\* a copy-and-paste slip: tracker_id_count indexed with the gt ids of the frame
AccumulateFrame_gt_index(tab, d, t, th) ==
    [pmc |-> [g \in DOMAIN tab.pmc |-> [k \in DOMAIN tab.pmc[g] |->
                 tab.pmc[g][k] + (IF <<g, k>> \in MatchedPairs(d, t, th) THEN 1 ELSE 0)]],
     gc |-> [g \in DOMAIN tab.gc |->
                 tab.gc[g] + (IF g \in Range(d.gt_ids[t]) THEN 1 ELSE 0)],
     tc |-> [k \in DOMAIN tab.tc |->
                 tab.tc[k] + (IF k \in Range(d.gt_ids[t]) THEN 1 ELSE 0)]]


\* one pass of the loop body over timestep t
AccumulateFrame(tab, d, t, th) ==
    [pmc |-> [g \in DOMAIN tab.pmc |-> [k \in DOMAIN tab.pmc[g] |->
                 tab.pmc[g][k] + (IF <<g, k>> \in MatchedPairs(d, t, th) THEN 1 ELSE 0)]],
     gc |-> [g \in DOMAIN tab.gc |->
                 tab.gc[g] + (IF g \in Range(d.gt_ids[t]) THEN 1 ELSE 0)],
     tc |-> [k \in DOMAIN tab.tc |->
                 tab.tc[k] + (IF k \in Range(d.tracker_ids[t]) THEN 1 ELSE 0)]]

RECURSIVE AccumulateUpTo(_, _, _)
AccumulateUpTo(d, n, th) ==
    IF n = 0 THEN ZeroTables(d)
    ELSE AccumulateFrame(AccumulateUpTo(d, n - 1, th), d, n, th)

Accumulate(d, th) == AccumulateUpTo(d, Len(d.gt_ids), th)

(***************************************************************************)
(* The assignment solver (scipy.optimize.linear_sum_assignment): some      *)
(* perfect matching of rows to columns of minimum total cost.  Which one   *)
(* of several optimal matchings it returns is not specified, so the model  *)
(* lets it return any of them.                                             *)
(***************************************************************************)
RECURSIVE Orderings(_)
Orderings(S) ==
    IF S = {} THEN { <<>> }
    ELSE UNION { { <<x>> \o p : p \in Orderings(S \ {x}) } : x \in S }

\* the bijections of rows 0..n-1 to columns 0..n-1, for every size of matrix
AllAssignments ==
    [n \in 0..(MaxGtIds + MaxTrackerIds) |->
        { [r \in 0..(n - 1) |-> p[r + 1]] : p \in Orderings(0..(n - 1)) }]

Assignments(n) == AllAssignments[n]

Cell(e, k) == [e10 |-> e, n |-> k]
CellAdd(a, b) == Cell(a.e10 + b.e10, a.n + b.n)
CellLeq(a, b) == a.e10 < b.e10 \/ (a.e10 = b.e10 /\ a.n <= b.n)

\* common denominator of the cells of the track-level cost matrix: the
\* denominator of a real-to-real cell is at most gt_id_count + tracker_id_count
CostScale == 1000000 * LcmUpTo(2 * MaxFrames)

\* the number in a cell of either cost matrix as [e10, n]; the n of a
\* fraction is in units of 1 / CostScale (a NaN cell, which no valid sequence
\* produces, counts 0)
CellWeight(c) ==
    IF "den" \in DOMAIN c
    THEN Cell(0, IF c.den = 0 THEN 0 ELSE c.num * (CostScale \div c.den))
    ELSE c

\* mat[match_rows, match_cols].sum()
CellSum(mat, m) ==
    Cell(SumOver([r \in DOMAIN mat |-> CellWeight(mat[r][m[r]]).e10], DOMAIN mat),
         SumOver([r \in DOMAIN mat |-> CellWeight(mat[r][m[r]]).n], DOMAIN mat))

linear_sum_assignment(cost) ==
    LET A == Assignments(Cardinality(DOMAIN cost))
        totals == { CellSum(cost, m) : m \in A }
        best == CHOOSE x \in totals : \A y \in totals : CellLeq(x, y)
    IN { m \in A : CellSum(cost, m) = best }

(***************************************************************************)
(* Identity.eval_sequence: cost matrices of the detection-level metric     *)
(***************************************************************************)
\* the own sink of a gt row placed at offset num_gt_ids instead of
\* num_tracker_ids
fn_mat_gt_offset(tab, G, T) ==
    [r \in 0..(G + T - 1) |-> [c \in 0..(G + T - 1) |->
        IF r < G
        THEN IF c < T THEN Cell(0, tab.gc[r] - tab.pmc[r][c])
             ELSE IF c = G + r THEN Cell(0, tab.gc[r])
             ELSE Cell(1, 0)
        ELSE Cell(0, 0)]]


\* fn_mat after lines 69, 71, 73, 74 and 78
fn_mat(tab, G, T) ==
    [r \in 0..(G + T - 1) |-> [c \in 0..(G + T - 1) |->
        IF r < G
        THEN IF c < T THEN Cell(0, tab.gc[r] - tab.pmc[r][c])
             ELSE IF c = T + r THEN Cell(0, tab.gc[r])
             ELSE Cell(1, 0)
        ELSE Cell(0, 0)]]

\* line 77 left out but for the 1e10: an unmatched tracker costs nothing
fp_mat_free_sink(tab, G, T) ==
    [r \in 0..(G + T - 1) |-> [c \in 0..(G + T - 1) |->
        IF c < T
        THEN IF r < G THEN Cell(0, tab.tc[c] - tab.pmc[r][c])
             ELSE IF r = c + G THEN Cell(0, 0)
             ELSE Cell(1, 0)
        ELSE Cell(0, 0)]]


\* fp_mat after lines 68, 70, 76, 77 and 79
fp_mat(tab, G, T) ==
    [r \in 0..(G + T - 1) |-> [c \in 0..(G + T - 1) |->
        IF c < T
        THEN IF r < G THEN Cell(0, tab.tc[c] - tab.pmc[r][c])
             ELSE IF r = c + G THEN Cell(0, tab.tc[c])
             ELSE Cell(1, 0)
        ELSE Cell(0, 0)]]

\* fn_mat + fp_mat
MatAdd(a, b) == [r \in DOMAIN a |-> [c \in DOMAIN a[r] |-> CellAdd(a[r][c], b[r][c])]]

\* the early return for a sequence without tracker detections
IdentityNoTracker(d) == compute_final_fields([ZeroRes EXCEPT !.IDFN = d.num_gt_dets])

\* the early return for a sequence without gt detections
IdentityNoGt(d) == compute_final_fields([ZeroRes EXCEPT !.IDFP = d.num_tracker_dets])

\* IDTP taken from the tracker detections instead of the gt detections
IdentityStatistics_tracker_sum(tab, G, T, m) ==
    LET IDFN == CellSum(fn_mat(tab, G, T), m)
        IDFP == CellSum(fp_mat(tab, G, T), m)
        tracker_sum == SumOver(tab.tc, DOMAIN tab.tc)
    IN [res |-> compute_final_fields(
                  [ZeroRes EXCEPT !.IDFN = IDFN.n, !.IDFP = IDFP.n,
                                  !.IDTP = tracker_sum - IDFN.n]),
        e10 |-> [IDFN |-> IDFN.e10, IDFP |-> IDFP.e10, IDTP |-> 0 - IDFN.e10]]


\* lines 85-90: the statistics of the matching m
IdentityStatistics(tab, G, T, m) ==
    LET IDFN == CellSum(fn_mat(tab, G, T), m)
        IDFP == CellSum(fp_mat(tab, G, T), m)
        gt_sum == SumOver(tab.gc, DOMAIN tab.gc)
    IN [res |-> compute_final_fields(
                  [ZeroRes EXCEPT !.IDFN = IDFN.n, !.IDFP = IDFP.n,
                                  !.IDTP = gt_sum - IDFN.n]),
        e10 |-> [IDFN |-> IDFN.e10, IDFP |-> IDFP.e10, IDTP |-> 0 - IDFN.e10]]

\* the state before any evaluation; the metric object was constructed with
\* the configuration (th, iou)
Constructed(th, iou) ==
    /\ op = "none"
    /\ data \in SequenceData
    /\ threshold = th
    /\ track_iou_threshold = iou
    /\ branch = "none"
    /\ potential_matches_count = <<>>
    /\ gt_id_count = <<>>
    /\ tracker_id_count = <<>>
    /\ cost_matrix = <<>>
    /\ match_cols = <<>>
    /\ res = ZeroRes
    /\ res_e10 = NoE10
    /\ runs = {}
    /\ all_res = <<>>
    /\ average = "none"
    /\ combined = <<>>
    /\ raised = "none"

Init == \E iou \in TrackIouThresholds : Constructed(DefaultThreshold, iou)

InitIdentity == Constructed(DefaultThreshold, DefaultTrackIouThresh)

\* the (gt id, tracker id) pairs a matching declares the same identity
RealPairs(m, G, T) == { <<g, m[g]>> : g \in { x \in 0..(G - 1) : m[x] < T } }

\* Identity.__init__ with a config that sets THRESHOLD
Identity_init ==
    /\ \E th \in Thresholds :
          /\ threshold' = th
          /\ track_iou_threshold' = DefaultTrackIouThresh
    /\ UNCHANGED <<data, runs>>
    /\ UNCHANGED evalVars
    /\ UNCHANGED combineVars

Identity_eval_sequence ==
    /\ op' = "Identity.eval_sequence"
    /\ IF data.num_tracker_dets = 0
       THEN /\ branch' = "no_tracker_dets"
            /\ res' = IdentityNoTracker(data)
            /\ res_e10' = NoE10
            /\ potential_matches_count' = <<>>
            /\ gt_id_count' = <<>>
            /\ tracker_id_count' = <<>>
            /\ cost_matrix' = <<>>
            /\ match_cols' = <<>>
       ELSE IF data.num_gt_dets = 0
       THEN /\ branch' = "no_gt_dets"
            /\ res' = IdentityNoGt(data)
            /\ res_e10' = NoE10
            /\ potential_matches_count' = <<>>
            /\ gt_id_count' = <<>>
            /\ tracker_id_count' = <<>>
            /\ cost_matrix' = <<>>
            /\ match_cols' = <<>>
       ELSE LET tab == Accumulate(data, threshold)
                G == data.num_gt_ids
                T == data.num_tracker_ids
                cost == MatAdd(fn_mat(tab, G, T), fp_mat(tab, G, T))
            IN \E m \in linear_sum_assignment(cost) :
                 LET st == IdentityStatistics(tab, G, T, m)
                 IN /\ branch' = "matched"
                    /\ potential_matches_count' = tab.pmc
                    /\ gt_id_count' = tab.gc
                    /\ tracker_id_count' = tab.tc
                    /\ cost_matrix' = cost
                    /\ match_cols' = m
                    /\ res' = st.res
                    /\ res_e10' = st.e10
    /\ runs' = runs \cup { [threshold |-> threshold, branch |-> branch',
                            res |-> res', res_e10 |-> res_e10',
                            potential_matches_count |-> potential_matches_count'] }
    /\ UNCHANGED <<data, threshold, track_iou_threshold>>
    /\ UNCHANGED combineVars

(***************************************************************************)
(* TrackIdentity.eval_sequence                                             *)
(***************************************************************************)
\* cost_matrix after lines 185-199
track_cost_matrix(tab, G, T) ==
    [r \in 0..(G + T - 1) |-> [c \in 0..(G + T - 1) |->
        IF r < G /\ c < T
        THEN LET raw == (tab.gc[r] - tab.pmc[r][c]) + (tab.tc[c] - tab.pmc[r][c])
             IN Rat(raw, raw + tab.pmc[r][c])
        ELSE IF r < G
        THEN IF c = T + r THEN Rat(999999, 1000000) ELSE Rat(1, 1)
        ELSE IF c < T
        THEN IF r = c + G THEN Rat(999999, 1000000) ELSE Rat(1, 1)
        ELSE Rat(1, 1)]]

\* np.less in place of np.less_equal
less_equal_strict(pm, tcount, iou) == tcount # 0 /\ 10 * pm < iou * tcount


\* np.less_equal(potential_matches_count / tracker_id_count, track_iou_threshold):
\* a division by zero gives inf or NaN, which is not <= the threshold
less_equal(pm, tcount, iou) == tcount # 0 /\ 10 * pm <= iou * tcount

\* the early returns
TrackNoTracker(d) == [ZeroRes EXCEPT !.IDFN = d.num_gt_ids]
TrackNoGt(d) == [ZeroRes EXCEPT !.IDFP = d.num_tracker_ids]

\* IDTP taken from the number of tracker identities
TrackStatistics_tracker_ids(tab, G, T, m, iou) ==
    LET rows == 0..(G + T - 1)
        match_mask == { r \in rows : r < G /\ m[r] < T }
        re_assigned == Cardinality({ r \in match_mask :
                           less_equal(tab.pmc[r][m[r]], tab.tc[m[r]], iou) })
        IDFN == Cardinality({ r \in rows : r < G /\ m[r] >= T }) + re_assigned
        IDFP == Cardinality({ r \in rows : r >= G /\ m[r] < T }) + re_assigned
    IN compute_final_fields(
         [ZeroRes EXCEPT !.IDFN = IDFN, !.IDFP = IDFP, !.IDTP = T - IDFN])

\* lines 203-215: the statistics of the matching m
TrackStatistics(tab, G, T, m, iou) ==
    LET rows == 0..(G + T - 1)
        match_mask == { r \in rows : r < G /\ m[r] < T }
        re_assigned == Cardinality({ r \in match_mask :
                           less_equal(tab.pmc[r][m[r]], tab.tc[m[r]], iou) })
        IDFN == Cardinality({ r \in rows : r < G /\ m[r] >= T }) + re_assigned
        IDFP == Cardinality({ r \in rows : r >= G /\ m[r] < T }) + re_assigned
    IN compute_final_fields(
         [ZeroRes EXCEPT !.IDFN = IDFN, !.IDFP = IDFP, !.IDTP = G - IDFN])

TrackIdentity_eval_sequence ==
    /\ op' = "TrackIdentity.eval_sequence"
    /\ IF data.num_tracker_dets = 0
       THEN /\ branch' = "no_tracker_dets"
            /\ res' = TrackNoTracker(data)
            /\ potential_matches_count' = <<>>
            /\ gt_id_count' = <<>>
            /\ tracker_id_count' = <<>>
            /\ cost_matrix' = <<>>
            /\ match_cols' = <<>>
       ELSE IF data.num_gt_dets = 0
       THEN /\ branch' = "no_gt_dets"
            /\ res' = TrackNoGt(data)
            /\ potential_matches_count' = <<>>
            /\ gt_id_count' = <<>>
            /\ tracker_id_count' = <<>>
            /\ cost_matrix' = <<>>
            /\ match_cols' = <<>>
       ELSE LET tab == Accumulate(data, threshold)
                G == data.num_gt_ids
                T == data.num_tracker_ids
                cost == track_cost_matrix(tab, G, T)
            IN \E m \in linear_sum_assignment(cost) :
                    /\ branch' = "matched"
                    /\ potential_matches_count' = tab.pmc
                    /\ gt_id_count' = tab.gc
                    /\ tracker_id_count' = tab.tc
                    /\ cost_matrix' = cost
                    /\ match_cols' = m
                    /\ res' = TrackStatistics(tab, G, T, m, track_iou_threshold)
    /\ res_e10' = NoE10
    /\ UNCHANGED <<data, threshold, track_iou_threshold, runs>>
    /\ UNCHANGED combineVars

(***************************************************************************)
(* Aggregation over sequences                                              *)
(***************************************************************************)
\* _BaseMetric._combine_sum: the sum of one field over the results
combine_sum(results, field) ==
    SumOver([k \in DOMAIN results |-> results[k][field]], DOMAIN results)

RatAdd(a, b) == Rat(a.num * b.den + b.num * a.den, a.den * b.den)

RECURSIVE RatSumUpTo(_, _, _)
RatSumUpTo(results, field, n) ==
    IF n = 0 THEN Rat(0, 1)
    ELSE RatAdd(RatSumUpTo(results, field, n - 1), results[n][field])

\* np.mean of one float field over the results (NaN, den = 0, for no results)
mean(results, field) ==
    LET total == RatSumUpTo(results, field, Len(results))
    IN Rat(total.num, total.den * Len(results))

SummedFields(results) ==
    [ZeroRes EXCEPT !.IDTP = combine_sum(results, "IDTP"),
                    !.IDFN = combine_sum(results, "IDFN"),
                    !.IDFP = combine_sum(results, "IDFP")]

\* the call of _compute_final_fields left out
combine_sequences_no_final(results) == SummedFields(results)


\* Identity.combine_sequences
combine_sequences(results) == compute_final_fields(SummedFields(results))

\* TrackIdentity.combine_sequences when it returns
track_combine_sequences(results, avg) ==
    IF avg = "micro" THEN compute_final_fields(SummedFields(results))
    ELSE [SummedFields(results) EXCEPT !.IDF1 = mean(results, "IDF1"),
                                       !.IDR = mean(results, "IDR"),
                                       !.IDP = mean(results, "IDP")]

\* the else branch only guarding against a missing mode
raises_value_error_lenient(avg) == avg = ""


\* whether TrackIdentity.combine_sequences reaches its raise statement
raises_value_error(avg) == avg # "micro" /\ avg # "macro"

\* the per-sequence results eval_sequence can hand over: counts with the
\* derived ratios, and the early returns of TrackIdentity.eval_sequence
PerSequenceResults ==
    { compute_final_fields([ZeroRes EXCEPT !.IDTP = tp, !.IDFN = fn, !.IDFP = fp]) :
        tp \in 0..MaxCount, fn \in 0..MaxCount, fp \in 0..MaxCount }
    \cup { [ZeroRes EXCEPT !.IDFN = fn] : fn \in 0..MaxCount }
    \cup { [ZeroRes EXCEPT !.IDFP = fp] : fp \in 0..MaxCount }

AllResults == UNION { [1..n -> PerSequenceResults] : n \in 0..MaxSeqs }

NoData == MakeData(0, 0, <<>>)

InitCombine ==
    /\ op = "none"
    /\ data = NoData
    /\ threshold = DefaultThreshold
    /\ track_iou_threshold = DefaultTrackIouThresh
    /\ branch = "none"
    /\ potential_matches_count = <<>>
    /\ gt_id_count = <<>>
    /\ tracker_id_count = <<>>
    /\ cost_matrix = <<>>
    /\ match_cols = <<>>
    /\ res = ZeroRes
    /\ res_e10 = NoE10
    /\ runs = {}
    /\ all_res \in AllResults
    /\ average = "none"
    /\ combined = <<>>
    /\ raised = "none"

Identity_combine_sequences ==
    /\ op' = "Identity.combine_sequences"
    /\ average' = "none"
    /\ combined' = << combine_sequences(all_res) >>
    /\ raised' = "none"
    /\ UNCHANGED <<data, threshold, track_iou_threshold, branch,
                   potential_matches_count, gt_id_count, tracker_id_count,
                   cost_matrix, match_cols, res, res_e10, runs, all_res>>

TrackIdentity_combine_sequences ==
    /\ op' = "TrackIdentity.combine_sequences"
    /\ \E avg \in Averages :
          /\ average' = avg
          /\ IF raises_value_error(avg)
             THEN /\ combined' = <<>>
                  /\ raised' = "ValueError"
             ELSE /\ combined' = << track_combine_sequences(all_res, avg) >>
                  /\ raised' = "none"
    /\ UNCHANGED <<data, threshold, track_iou_threshold, branch,
                   potential_matches_count, gt_id_count, tracker_id_count,
                   cost_matrix, match_cols, res, res_e10, runs, all_res>>

NextCombine == Identity_combine_sequences \/ TrackIdentity_combine_sequences

SpecCombine == InitCombine /\ [][NextCombine]_vars

NextIdentity == Identity_init \/ Identity_eval_sequence

\* one metric object per behaviour, evaluating its sequence in both variants
Next == Identity_eval_sequence \/ TrackIdentity_eval_sequence

Spec == Init /\ [][Next]_vars

\* the detection-level metric, reconfigured and re-run on one sequence
SpecIdentity == InitIdentity /\ [][NextIdentity]_vars

(***************************************************************************)
(* Properties                                                              *)
(***************************************************************************)
EvalOps == {"Identity.eval_sequence", "TrackIdentity.eval_sequence"}

G_ == data.num_gt_ids
T_ == data.num_tracker_ids

\* the ratios of r are the ones section 4.4 derives from the counts of r
Section44(r) ==
    /\ r.IDR.den > 0 /\ r.IDP.den > 0 /\ r.IDF1.den > 0
    /\ IF r.IDFN = 0 THEN r.IDR.num = r.IDR.den
       ELSE r.IDR.num * Max(1, r.IDTP + r.IDFN) = r.IDTP * r.IDR.den
    /\ IF r.IDFP = 0 THEN r.IDP.num = r.IDP.den
       ELSE r.IDP.num * Max(1, r.IDTP + r.IDFP) = r.IDTP * r.IDP.den
    /\ IF r.IDFN = 0 /\ r.IDFP = 0 THEN r.IDF1.num = r.IDF1.den
       ELSE r.IDF1.num * Max(2, 2 * r.IDTP + r.IDFP + r.IDFN) = 2 * r.IDTP * r.IDF1.den

RECURSIVE FieldTotal(_, _, _)
FieldTotal(results, field, n) ==
    IF n = 0 THEN 0 ELSE results[n][field] + FieldTotal(results, field, n - 1)

\* C1: whenever the detection-level eval_sequence has returned, early returns
\* included, IDTP + IDFN is the number of gt detections of the sequence.
C1_GtDetectionsAccounted ==
    op = "Identity.eval_sequence" =>
        /\ res.IDTP + res.IDFN = data.num_gt_dets
        /\ res_e10.IDTP + res_e10.IDFN = 0

C1_Witness ==
    /\ op = "Identity.eval_sequence"
    /\ branch = "matched"
    /\ res.IDTP > 0
    /\ res.IDFN > 0

\* C2: the result of eval_sequence, in both variants, has exactly the six
\* fields, with IDTP, IDFN, IDFP non-negative integers and IDF1, IDR, IDP in
\* [0,1].
C2_ResultShape ==
    op \in EvalOps =>
        /\ DOMAIN res = {"IDTP", "IDFN", "IDFP", "IDF1", "IDR", "IDP"}
        /\ \A f \in {"IDTP", "IDFN", "IDFP"} : res[f] \in Nat /\ res_e10[f] = 0
        /\ \A f \in {"IDF1", "IDR", "IDP"} :
              res[f].den > 0 /\ 0 <= res[f].num /\ res[f].num <= res[f].den

C2_Witness ==
    /\ op = "TrackIdentity.eval_sequence"
    /\ branch = "matched"
    /\ res.IDTP > 0
    /\ res.IDFP > 0
    /\ 0 < res.IDP.num /\ res.IDP.num < res.IDP.den

\* C3: every result of the track-level eval_sequence, early returns included,
\* has its ratios equal to the section 4.4 derivation of its own counts.
C3_TrackRatiosDerived ==
    op = "TrackIdentity.eval_sequence" => Section44(res)

\* C4: of two detection-level runs on the same sequence, the one with the
\* higher threshold has no larger match count for any pair, no larger IDTP,
\* and no smaller IDFN and IDFP.
C4_ThresholdMonotone ==
    \A r1 \in runs : \A r2 \in runs :
        r1.threshold <= r2.threshold =>
            /\ r2.res.IDTP <= r1.res.IDTP
            /\ r2.res.IDFN >= r1.res.IDFN
            /\ r2.res.IDFP >= r1.res.IDFP
            /\ r1.res_e10 = NoE10 /\ r2.res_e10 = NoE10
            /\ (r1.branch = "matched" /\ r2.branch = "matched") =>
                  \A g \in 0..(G_ - 1) : \A k \in 0..(T_ - 1) :
                      r2.potential_matches_count[g][k] <= r1.potential_matches_count[g][k]

C4_Witness ==
    \E r1 \in runs : \E r2 \in runs :
        /\ r1.threshold < r2.threshold
        /\ r1.branch = "matched" /\ r2.branch = "matched"
        /\ r2.res.IDTP < r1.res.IDTP
        /\ r2.res.IDFN > r1.res.IDFN
        /\ r2.res.IDFP > r1.res.IDFP
        /\ \E g \in 0..(G_ - 1) : \E k \in 0..(T_ - 1) :
              r2.potential_matches_count[g][k] < r1.potential_matches_count[g][k]

\* C5: Identity.combine_sequences returns the sums of IDTP, IDFN, IDFP over
\* the per-sequence results, and the ratios section 4.4 derives from those
\* sums, whatever the per-sequence ratios are.
C5_CombineSequences ==
    op = "Identity.combine_sequences" =>
        /\ Len(combined) = 1
        /\ combined[1].IDTP = FieldTotal(all_res, "IDTP", Len(all_res))
        /\ combined[1].IDFN = FieldTotal(all_res, "IDFN", Len(all_res))
        /\ combined[1].IDFP = FieldTotal(all_res, "IDFP", Len(all_res))
        /\ Section44(combined[1])

C5_Witness ==
    /\ op = "Identity.combine_sequences"
    /\ Len(all_res) = 2
    /\ all_res[1].IDTP > 0 /\ all_res[1].IDFP > 0
    /\ all_res[2].IDFN > 0 /\ ~Section44(all_res[2])
    /\ combined[1].IDTP = all_res[1].IDTP + all_res[2].IDTP

\* C6: in the track-level variant a pair (g,t) of the matching is rejected
\* exactly when match count / tracker count <= TRACK_IOU_THRESH; IDFN is the
\* number of gt rows on sink columns plus the rejected pairs, IDFP the number
\* of sink rows on tracker columns plus the rejected pairs, IDTP the number of
\* gt identities less IDFN.
C6_TrackBoundary ==
    (op = "TrackIdentity.eval_sequence" /\ branch = "matched") =>
        LET rejected == { g \in 0..(G_ - 1) :
                            /\ match_cols[g] < T_
                            /\ 10 * potential_matches_count[g][match_cols[g]]
                                 <= track_iou_threshold * tracker_id_count[match_cols[g]] }
            gt_on_sink == { g \in 0..(G_ - 1) : match_cols[g] >= T_ }
            sink_on_tracker == { k \in 0..(T_ - 1) :
                                   \E r \in G_..(G_ + T_ - 1) : match_cols[r] = k }
        IN /\ res.IDFN = Cardinality(gt_on_sink) + Cardinality(rejected)
           /\ res.IDFP = Cardinality(sink_on_tracker) + Cardinality(rejected)
           /\ res.IDTP = G_ - res.IDFN

C6_Witness ==
    /\ op = "TrackIdentity.eval_sequence"
    /\ branch = "matched"
    /\ \E g \in 0..(G_ - 1) :
          /\ match_cols[g] < T_
          /\ potential_matches_count[g][match_cols[g]] > 0
          /\ 10 * potential_matches_count[g][match_cols[g]]
                = track_iou_threshold * tracker_id_count[match_cols[g]]
    /\ res.IDFN > 0 /\ res.IDFP > 0

\* C7: TrackIdentity.combine_sequences ends in the ValueError, returning
\* nothing, exactly when the mode is neither "micro" nor "macro".
C7_UnexpectedAverage ==
    op = "TrackIdentity.combine_sequences" =>
        IF average \in {"micro", "macro"}
        THEN raised = "none" /\ Len(combined) = 1
        ELSE raised = "ValueError" /\ combined = <<>>

C7_Witness ==
    /\ op = "TrackIdentity.combine_sequences"
    /\ average = "weighted"
    /\ Len(all_res) = 2
    /\ raised = "ValueError"

\* C8: the matching of the detection-level variant never pairs a tracker
\* sink row with another tracker's column nor a gt row with another gt's sink
\* column, and IDFN + IDFP is at most the number of gt and tracker detections.
C8_PenaltyDominates ==
    (op = "Identity.eval_sequence" /\ branch = "matched") =>
        /\ \A k \in 0..(T_ - 1) : match_cols[G_ + k] < T_ => match_cols[G_ + k] = k
        /\ \A g \in 0..(G_ - 1) : match_cols[g] >= T_ => match_cols[g] = T_ + g
        /\ res_e10 = NoE10
        /\ res.IDFN + res.IDFP <= data.num_gt_dets + data.num_tracker_dets

C8_Witness ==
    /\ op = "Identity.eval_sequence"
    /\ branch = "matched"
    /\ G_ = 2
    /\ \E g \in 0..(G_ - 1) : match_cols[g] = T_ + g
    /\ \E g \in 0..(G_ - 1) : match_cols[g] < T_

\* C9: after the accumulation every match count is at most the gt count and
\* the tracker count of its pair, and every cell of the matrix handed to the
\* solver is non-negative and finite: gt + tracker - 2 * match in the
\* detection-level variant, raw / (raw + match) with a non-zero denominator
\* and a value in [0,1] in the track-level variant.
C9_SolverPrecondition ==
    (op \in EvalOps /\ branch = "matched") =>
        /\ \A g \in 0..(G_ - 1) : \A k \in 0..(T_ - 1) :
              /\ potential_matches_count[g][k] <= gt_id_count[g]
              /\ potential_matches_count[g][k] <= tracker_id_count[k]
        /\ \A r \in 0..(G_ + T_ - 1) : \A c \in 0..(G_ + T_ - 1) :
              IF op = "Identity.eval_sequence"
              THEN /\ cost_matrix[r][c].e10 \in 0..2
                   /\ cost_matrix[r][c].n >= 0
                   /\ (r < G_ /\ c < T_) =>
                         /\ cost_matrix[r][c].e10 = 0
                         /\ cost_matrix[r][c].n = gt_id_count[r] + tracker_id_count[c]
                                                    - 2 * potential_matches_count[r][c]
              ELSE /\ cost_matrix[r][c].den > 0
                   /\ 0 <= cost_matrix[r][c].num
                   /\ cost_matrix[r][c].num <= cost_matrix[r][c].den
                   /\ (r < G_ /\ c < T_) =>
                         cost_matrix[r][c].num
                            * (gt_id_count[r] + tracker_id_count[c] - potential_matches_count[r][c])
                         = (gt_id_count[r] + tracker_id_count[c] - 2 * potential_matches_count[r][c])
                            * cost_matrix[r][c].den

C9_Witness ==
    /\ op = "TrackIdentity.eval_sequence"
    /\ branch = "matched"
    /\ \E g \in 0..(G_ - 1) : \E k \in 0..(T_ - 1) :
          /\ potential_matches_count[g][k] > 0
          /\ potential_matches_count[g][k] = gt_id_count[g]
          /\ potential_matches_count[g][k] < tracker_id_count[k]
          /\ cost_matrix[g][k].num > 0

\* C10: two detection-level runs on the same sequence with the same
\* threshold give the same result, whichever optimal matching the solver
\* returned.
C10_TieBreakIndependent ==
    \A r1 \in runs : \A r2 \in runs :
        r1.threshold = r2.threshold => (r1.res = r2.res /\ r1.res_e10 = r2.res_e10)

\* a run whose solver had the choice between matchings that pair different
\* identities
C10_Witness ==
    /\ op = "Identity.eval_sequence"
    /\ branch = "matched"
    /\ \E r \in runs : r.threshold = threshold /\ r.res = res
    /\ \E m \in linear_sum_assignment(cost_matrix) :
          RealPairs(m, G_, T_) # RealPairs(match_cols, G_, T_)

====
